---- MODULE Spec2Model ----
(***************************************************************************)
(* SPF validator: the lookup engine of src/routes/api/spf.ts (GET handler, *)
(* lookupSpf, expandMechanism, fetchSpfRecord, parseSpfRecord) and the     *)
(* resolver chain of src/lib/dns.ts (resolveTxt).                          *)
(*                                                                         *)
(* Strings are sequences of one-character strings, so that trimming,       *)
(* lower-casing, splitting and pattern matching are computed, not assumed. *)
(* An optional value (T | null, field?: T) is <<>> or <<value>>.           *)
(***************************************************************************)
EXTENDS Integers, Sequences, FiniteSets, TLC

\* ------------------------------------------------------------------ bounds
MaxDomLen == 2          \* longest "domain" query parameter tried
MaxRuns == 2            \* requests handled one after the other (SpecRerun)
MaxFallbacks == 2       \* longest fallbackResolvers list tried (SpecResolver)
ChainLen == 12          \* domains n1..n12 of the include chain a -> n1 -> n2 ...
MaxTerms == 3           \* most terms after the version in a record parsed on its own (SpecParser)

\* ------------------------------------------------------- program constants
MAX_DNS_LOOKUPS == 10
TXT_TYPE == 16
CHUNK_SIZE == 255

\* ----------------------------------------------------------------- strings
None == <<>>
Some(x) == <<x>>

LowerLetters ==
  <<"a","b","c","d","e","f","g","h","i","j","k","l","m",
    "n","o","p","q","r","s","t","u","v","w","x","y","z">>
Digits == {"0","1","2","3","4","5","6","7","8","9"}
Whitespace == {" ", "\t"}

Range(s) == {s[i] : i \in DOMAIN s}

\* F(e), with e evaluated once however often F uses its argument
Strict(e, F(_)) == CHOOSE out \in {F(v) : v \in {e}} : TRUE

LowerOf ==
  "A" :> "a" @@ "B" :> "b" @@ "C" :> "c" @@ "D" :> "d" @@ "E" :> "e" @@ "F" :> "f" @@
  "G" :> "g" @@ "H" :> "h" @@ "I" :> "i" @@ "J" :> "j" @@ "K" :> "k" @@ "L" :> "l" @@
  "M" :> "m" @@ "N" :> "n" @@ "O" :> "o" @@ "P" :> "p" @@ "Q" :> "q" @@ "R" :> "r" @@
  "S" :> "s" @@ "T" :> "t" @@ "U" :> "u" @@ "V" :> "v" @@ "W" :> "w" @@ "X" :> "x" @@
  "Y" :> "y" @@ "Z" :> "z"
UpperSet == DOMAIN LowerOf
ToLowerChar(c) == IF c \in UpperSet THEN LowerOf[c] ELSE c

\* Array.prototype.map, Array.prototype.filter and Array.prototype.find
map(array, F(_)) == Strict(array, LAMBDA a : [i \in DOMAIN a |-> F(a[i])] \o <<>>)
filter(array, Test(_)) == SelectSeq(array, Test)
find(array, Test(_)) ==
  Strict(SelectSeq(array, Test), LAMBDA found :
    IF found = <<>> THEN None ELSE Some(Head(found)))

\* String.prototype.toLowerCase
toLowerCase(s) == map(s, ToLowerChar)

\* String.prototype.slice(from) and slice(from, to), 0-based as in the source
sliceFrom(s, from) == SubSeq(s, from + 1, Len(s))
slice(s, from, to) == SubSeq(s, from + 1, to)

\* String.prototype.indexOf(ch): 0-based index of the first occurrence, or -1
indexOf(str, ch) ==
  Strict(str, LAMBDA s :
    IF \E i \in DOMAIN s : s[i] = ch
    THEN (CHOOSE i \in DOMAIN s : s[i] = ch /\ \A j \in 1..(i - 1) : s[j] # ch) - 1
    ELSE -1)

startsWith(s, p) == Len(s) >= Len(p) /\ SubSeq(s, 1, Len(p)) = p

\* String.prototype.trim
trim(str) ==
  Strict(str, LAMBDA s :
    IF \A i \in DOMAIN s : s[i] \in Whitespace THEN <<>>
    ELSE LET first == CHOOSE i \in DOMAIN s :
                        s[i] \notin Whitespace /\ \A j \in 1..(i - 1) : s[j] \in Whitespace
             last == CHOOSE i \in DOMAIN s :
                        s[i] \notin Whitespace /\ \A j \in (i + 1)..Len(s) : s[j] \in Whitespace
         IN SubSeq(s, first, last))

\* s without its leading whitespace
trimStart(str) ==
  Strict(str, LAMBDA s :
    IF \A k \in DOMAIN s : s[k] \in Whitespace THEN <<>>
    ELSE SubSeq(s, CHOOSE k \in DOMAIN s :
                     s[k] \notin Whitespace /\ \A m \in 1..(k - 1) : s[m] \in Whitespace,
                Len(s)))

\* String.prototype.split(/\s+/)
RECURSIVE splitWs(_)
splitWs(str) ==
  Strict(str, LAMBDA s :
    IF \A i \in DOMAIN s : s[i] \notin Whitespace THEN <<s>>
    ELSE LET i == CHOOSE k \in DOMAIN s :
                    s[k] \in Whitespace /\ \A j \in 1..(k - 1) : s[j] \notin Whitespace
         IN <<SubSeq(s, 1, i - 1)>> \o splitWs(trimStart(SubSeq(s, i + 1, Len(s)))))

\* Array.prototype.join("")
RECURSIVE joinChunks(_)
joinChunks(array) ==
  Strict(array, LAMBDA chunks :
    IF chunks = <<>> THEN <<>> ELSE Head(chunks) \o joinChunks(Tail(chunks)))

\* data.replace(/^"|"$/g, "").replace(/"\s*"/g, "")
\* the replace of /"\s*"/g: the leftmost match, from quote q to quote j, is
\* dropped and the search goes on after it
RECURSIVE dropQuotePairs(_)
dropQuotePairs(str) ==
  Strict(str, LAMBDA s :
    LET closes(q, j) == s[j] = "\"" /\ \A k \in (q + 1)..(j - 1) : s[k] \in Whitespace
        opens(q) == s[q] = "\"" /\ \E j \in (q + 1)..Len(s) : closes(q, j)
    IN IF \A q \in DOMAIN s : ~opens(q) THEN s
       ELSE LET q == CHOOSE q \in DOMAIN s : opens(q) /\ \A k \in 1..(q - 1) : ~opens(k)
                j == CHOOSE j \in (q + 1)..Len(s) : closes(q, j)
            IN SubSeq(s, 1, q - 1) \o dropQuotePairs(SubSeq(s, j + 1, Len(s))))

unquoteTxt(data) ==
  Strict(IF data # <<>> /\ data[1] = "\"" THEN Tail(data) ELSE data, LAMBDA a :
    dropQuotePairs(IF a # <<>> /\ a[Len(a)] = "\"" THEN SubSeq(a, 1, Len(a) - 1) ELSE a))

\* ------------------------------------------------------------------ issues
\* SpfValidationIssue: the message is its fixed text plus the interpolated
\* string (dom) and number (n), <<>> and 0 where the text interpolates none.
Issue(type, text, dom, n) == [type |-> type, text |-> text, dom |-> dom, n |-> n]
Error(text, dom, n) == Issue("error", text, dom, n)
Warning(text, dom, n) == Issue("warning", text, dom, n)

\* SpfMechanism; expanded is the optional sub-result
Mechanism(type, qualifier, value) ==
  [type |-> type, qualifier |-> qualifier, value |-> value, expanded |-> None]

ceilDiv(n, d) == (n + d - 1) \div d

\* ------------------------------------------------------------ parseSpfRecord
vspf1 == <<"v","=","s","p","f","1">>
tALL == <<"a","l","l">>
tPTR == <<"p","t","r">>
tINCLUDE == <<"i","n","c","l","u","d","e">>
tREDIRECT == <<"r","e","d","i","r","e","c","t">>
tA == <<"a">>
tMX == <<"m","x">>
tEXISTS == <<"e","x","i","s","t","s">>
Qualifiers == {"+", "-", "~", "?"}

\* one token of the record as it would be parsed if "=" were asked for at an
\* index above 0, as ":" and "/" are
parseTermEqPastStart(part) ==
  LET hasQ == part # <<>> /\ part[1] \in Qualifiers
      qualifier == IF hasQ THEN part[1] ELSE "+"
  IN Strict(IF hasQ THEN sliceFrom(part, 1) ELSE part, LAMBDA term :
       LET colonIndex == indexOf(term, ":")
           slashIndex == indexOf(term, "/")
           eqIndex == indexOf(term, "=")
       IN IF colonIndex > 0
          THEN Mechanism(toLowerCase(slice(term, 0, colonIndex)), qualifier,
                         sliceFrom(term, colonIndex + 1))
          ELSE IF slashIndex > 0
          THEN Mechanism(toLowerCase(slice(term, 0, slashIndex)), qualifier,
                         sliceFrom(term, slashIndex))
          ELSE IF eqIndex > 0
          THEN Mechanism(toLowerCase(slice(term, 0, eqIndex)), qualifier,
                         sliceFrom(term, eqIndex + 1))
          ELSE Mechanism(toLowerCase(term), qualifier, <<>>))

\* one token of the record, lines 153-184
parseTerm(part) ==
  LET hasQ == part # <<>> /\ part[1] \in Qualifiers
      qualifier == IF hasQ THEN part[1] ELSE "+"
  IN Strict(IF hasQ THEN sliceFrom(part, 1) ELSE part, LAMBDA term :
       LET colonIndex == indexOf(term, ":")
           slashIndex == indexOf(term, "/")
           eqIndex == indexOf(term, "=")
       IN IF colonIndex > 0
          THEN Mechanism(toLowerCase(slice(term, 0, colonIndex)), qualifier,
                         sliceFrom(term, colonIndex + 1))
          ELSE IF slashIndex > 0
          THEN Mechanism(toLowerCase(slice(term, 0, slashIndex)), qualifier,
                         sliceFrom(term, slashIndex))
          ELSE IF eqIndex >= 0
          THEN Mechanism(toLowerCase(slice(term, 0, eqIndex)), qualifier,
                         sliceFrom(term, eqIndex + 1))
          ELSE Mechanism(toLowerCase(term), qualifier, <<>>))

\* the loop of lines 152-192: a mechanism for every token that is not blank,
\* and a warning for every ptr among them, both in source order
ptrWarning(m) == Warning("\"ptr\" mechanism is deprecated (RFC 7208 Section 5.5)", <<>>, 0)
parseTerms(parts) ==
  Strict(map(filter(map(parts, trim), LAMBDA part : part # <<>>), parseTerm),
         LAMBDA mechanisms :
           [mechanisms |-> mechanisms,
            issues |-> map(filter(mechanisms, LAMBDA m : m.type = tPTR), ptrWarning)])

\* Array.prototype.findIndex(m => m.type === "all"), 0-based or -1
findAllIndex(mechanisms) ==
  IF \E i \in DOMAIN mechanisms : mechanisms[i].type = tALL
  THEN (CHOOSE i \in DOMAIN mechanisms :
          mechanisms[i].type = tALL /\ \A j \in 1..(i - 1) : mechanisms[j].type # tALL) - 1
  ELSE -1

\* Array.prototype.findLastIndex(m => m.type === "all"), 0-based or -1
findLastAllIndex(mechanisms) ==
  IF \E i \in DOMAIN mechanisms : mechanisms[i].type = tALL
  THEN (CHOOSE i \in DOMAIN mechanisms :
          mechanisms[i].type = tALL
            /\ \A j \in (i + 1)..Len(mechanisms) : mechanisms[j].type # tALL) - 1
  ELSE -1

\* the rule checks as they would be with findLastIndex at line 194
ruleIssuesLastAll(record, mechanisms) ==
  LET allIndex == findLastAllIndex(mechanisms)
      redirectCount == Cardinality({i \in DOMAIN mechanisms : mechanisms[i].type = tREDIRECT})
  IN (IF allIndex >= 0 /\ allIndex # Len(mechanisms) - 1
      THEN <<Warning("\"all\" mechanism should be the last term in the record", <<>>, 0)>>
      ELSE <<>>)
     \o (IF allIndex < 0
         THEN <<Warning("No \"all\" mechanism found. Consider adding \"-all\" or \"~all\" at the end", <<>>, 0)>>
         ELSE <<>>)
     \o (IF redirectCount > 1
         THEN <<Error("Multiple \"redirect\" modifiers found (only one allowed)", <<>>, 0)>>
         ELSE <<>>)
     \o (IF redirectCount > 0 /\ allIndex >= 0
         THEN <<Warning("Both \"redirect\" and \"all\" present. \"redirect\" is ignored when \"all\" is present", <<>>, 0)>>
         ELSE <<>>)
     \o (IF Len(record) > CHUNK_SIZE
         THEN <<Warning("Record exceeds 255 characters. Will be split into TXT strings",
                        <<>>, ceilDiv(Len(record), CHUNK_SIZE))>>
         ELSE <<>>)

\* the rule checks of lines 194-233, in the order the source appends them
ruleIssues(record, mechanisms) ==
  LET allIndex == findAllIndex(mechanisms)
      redirectCount == Cardinality({i \in DOMAIN mechanisms : mechanisms[i].type = tREDIRECT})
  IN (IF allIndex >= 0 /\ allIndex # Len(mechanisms) - 1
      THEN <<Warning("\"all\" mechanism should be the last term in the record", <<>>, 0)>>
      ELSE <<>>)
     \o (IF allIndex < 0
         THEN <<Warning("No \"all\" mechanism found. Consider adding \"-all\" or \"~all\" at the end", <<>>, 0)>>
         ELSE <<>>)
     \o (IF redirectCount > 1
         THEN <<Error("Multiple \"redirect\" modifiers found (only one allowed)", <<>>, 0)>>
         ELSE <<>>)
     \o (IF redirectCount > 0 /\ allIndex >= 0
         THEN <<Warning("Both \"redirect\" and \"all\" present. \"redirect\" is ignored when \"all\" is present", <<>>, 0)>>
         ELSE <<>>)
     \o (IF Len(record) > CHUNK_SIZE
         THEN <<Warning("Record exceeds 255 characters. Will be split into TXT strings",
                        <<>>, ceilDiv(Len(record), CHUNK_SIZE))>>
         ELSE <<>>)

\* parseSpfRecord as it would be without the toLowerCase() of line 141
parseSpfRecordCaseSensitive(record) ==
  Strict(splitWs(trim(record)), LAMBDA parts :
    IF ~startsWith(parts[1], vspf1)
    THEN [version |-> "null", mechanisms |-> <<>>,
          issues |-> <<Error("Invalid version: expected \"v=spf1\"", parts[1], 0)>>]
    ELSE Strict(parseTerms(Tail(parts)), LAMBDA p :
           [version |-> "spf1", mechanisms |-> p.mechanisms,
            issues |-> p.issues \o ruleIssues(record, p.mechanisms)]))

parseSpfRecord(record) ==
  Strict(splitWs(trim(record)), LAMBDA parts :
    IF ~startsWith(toLowerCase(parts[1]), vspf1)
    THEN [version |-> "null", mechanisms |-> <<>>,
          issues |-> <<Error("Invalid version: expected \"v=spf1\"", parts[1], 0)>>]
    ELSE Strict(parseTerms(Tail(parts)), LAMBDA p :
           [version |-> "spf1", mechanisms |-> p.mechanisms,
            issues |-> p.issues \o ruleIssues(record, p.mechanisms)]))

\* ------------------------------------------------------------ DNS backends
\* What a backend answers for a name. Native (Deno.resolveDns): the TXT
\* records, each an array of chunks, or a rejection, or nothing before the
\* DNS_NATIVE_TIMEOUT_MS timer rejects ("slow"). DoH (dns.google): an HTTP
\* status, the JSON Status and the Answer list of {type, data}.
NativeAnswer(records) == [kind |-> "answer", records |-> records]
NativeError == [kind |-> "error", records |-> <<>>]
NativeSlow == [kind |-> "slow", records |-> <<>>]
DohAnswer(answer) == [kind |-> "answer", status |-> 0, answer |-> answer]
DohHttpError(status) == [kind |-> "http", status |-> status, answer |-> <<>>]
DohStatus(status) == [kind |-> "status", status |-> status, answer |-> <<>>]

\* FetchSpfResult: {record, error?, totalTxtRecords?}
FetchSpfResult(record, error, total) ==
  [record |-> record, error |-> error, totalTxtRecords |-> total]
ErrorText(text, n) == [text |-> text, n |-> n]

\* first element of txts that starts with v=spf1, case-insensitively
firstSpf(txts) == find(txts, LAMBDA txt : startsWith(toLowerCase(txt), vspf1))

noSpfResult(total) ==
  FetchSpfResult(None,
    Some(IF total > 0 THEN ErrorText("No SPF record found among TXT records", total)
         ELSE ErrorText("No TXT records found", 0)),
    Some(total))

\* fetchSpfRecordNative once Deno.resolveDns has answered `records`
fetchSpfRecordNative(records) ==
  Strict(firstSpf(map(records, joinChunks)), LAMBDA found :
       IF found # None THEN FetchSpfResult(found, None, Some(Len(records)))
       ELSE noSpfResult(Len(records)))

\* data.Answer?.filter((a) => a.type === 16)
filterTxt(answer) == filter(answer, LAMBDA a : a.type = TXT_TYPE)

\* fetchSpfRecordViaDoh once the HTTP response `out` is in: a FetchSpfResult,
\* or the thrown error
fetchSpfRecordViaDoh(out) ==
  IF out.kind = "http"
  THEN [threw |-> TRUE, error |-> ErrorText("DoH request failed", out.status),
        result |-> FetchSpfResult(None, None, None)]
  ELSE IF out.status # 0
  THEN [threw |-> TRUE, error |-> ErrorText("DNS query failed with status", out.status),
        result |-> FetchSpfResult(None, None, None)]
  ELSE Strict(filterTxt(out.answer), LAMBDA txtRecords :
         Strict(firstSpf(map(txtRecords, LAMBDA a : unquoteTxt(a.data))), LAMBDA found :
              [threw |-> FALSE, error |-> ErrorText("", 0),
               result |-> IF found # None
                          THEN FetchSpfResult(found, None, Some(Len(txtRecords)))
                          ELSE noSpfResult(Len(txtRecords))]))

\* the inner catch of fetchSpfRecord, lines 116-123
dohFailed(err) ==
  FetchSpfResult(None, Some(ErrorText("DNS lookup failed: " \o err.text, err.n)), None)

\* -------------------------------------------------------------- the results
\* SpfResult
SpfResult(domain, record, version, mechanisms, lookupCount, issues, queryTime) ==
  [domain |-> domain, record |-> record, version |-> version,
   mechanisms |-> mechanisms, lookupCount |-> lookupCount, issues |-> issues,
   queryTime |-> queryTime]

\* the sub-results expandMechanism builds without a fetch
stubResult(domain, issue) == SpfResult(domain, None, "null", <<>>, 0, <<issue>>, 0)

MissingDomainText == "Missing domain for include/redirect"
CircularText == "Circular reference detected"
LimitText == "DNS lookup limit exceeded"
TooManyText == "Too many DNS lookups"

LOOKUP_MECHANISMS == {tINCLUDE, tA, tMX, tPTR, tEXISTS, tREDIRECT}

\* LookupContext
LookupContext(count, maxLookups, visited) ==
  [count |-> count, maxLookups |-> maxLookups, visited |-> visited]

\* expandMechanism up to its await: the mechanism it returns, the context as
\* it leaves it, and the domain lookupSpf is called with, if it is called.
Expansion(mechanism, c, call) == [mechanism |-> mechanism, ctx |-> c, call |-> call]

\* expandMechanism as it would be with the budget test of line 292 left out
expandMechanismNoLimit(mechanism, c) ==
  IF mechanism.type \notin LOOKUP_MECHANISMS
  THEN Expansion(mechanism, c, None)
  ELSE IF mechanism.type # tINCLUDE /\ mechanism.type # tREDIRECT
  THEN Expansion(mechanism, [c EXCEPT !.count = @ + 1], None)
  ELSE LET targetDomain == mechanism.value
       IN IF targetDomain = <<>>
          THEN Expansion(
                 [mechanism EXCEPT !.expanded =
                    Some(stubResult(<<>>, Error(MissingDomainText, <<>>, 0)))],
                 c, None)
          ELSE IF toLowerCase(targetDomain) \in c.visited
          THEN Expansion(
                 [mechanism EXCEPT !.expanded =
                    Some(stubResult(targetDomain, Error(CircularText, targetDomain, 0)))],
                 c, None)
          ELSE Expansion(
                 mechanism,
                 [c EXCEPT !.count = @ + 1, !.visited = @ \cup {toLowerCase(targetDomain)}],
                 Some(targetDomain))

\* expandMechanism as it would be with ctx.visited.add(targetDomain) at line 312
expandMechanismAddsRaw(mechanism, c) ==
  IF mechanism.type \notin LOOKUP_MECHANISMS
  THEN Expansion(mechanism, c, None)
  ELSE IF mechanism.type # tINCLUDE /\ mechanism.type # tREDIRECT
  THEN Expansion(mechanism, [c EXCEPT !.count = @ + 1], None)
  ELSE LET targetDomain == mechanism.value
       IN IF targetDomain = <<>>
          THEN Expansion(
                 [mechanism EXCEPT !.expanded =
                    Some(stubResult(<<>>, Error(MissingDomainText, <<>>, 0)))],
                 c, None)
          ELSE IF toLowerCase(targetDomain) \in c.visited
          THEN Expansion(
                 [mechanism EXCEPT !.expanded =
                    Some(stubResult(targetDomain, Error(CircularText, targetDomain, 0)))],
                 c, None)
          ELSE LET counted == [c EXCEPT !.count = @ + 1]
               IN IF counted.count > counted.maxLookups
                  THEN Expansion(
                         [mechanism EXCEPT !.expanded =
                            Some(stubResult(targetDomain,
                                            Error(LimitText, <<>>, counted.maxLookups)))],
                         counted, None)
                  ELSE Expansion(
                         mechanism,
                         [counted EXCEPT !.visited = @ \cup {targetDomain}],
                         Some(targetDomain))

\* expandMechanism as it would be with the budget test of line 292 written >=
expandMechanismEarlyLimit(mechanism, c) ==
  IF mechanism.type \notin LOOKUP_MECHANISMS
  THEN Expansion(mechanism, c, None)
  ELSE IF mechanism.type # tINCLUDE /\ mechanism.type # tREDIRECT
  THEN Expansion(mechanism, [c EXCEPT !.count = @ + 1], None)
  ELSE LET targetDomain == mechanism.value
       IN IF targetDomain = <<>>
          THEN Expansion(
                 [mechanism EXCEPT !.expanded =
                    Some(stubResult(<<>>, Error(MissingDomainText, <<>>, 0)))],
                 c, None)
          ELSE IF toLowerCase(targetDomain) \in c.visited
          THEN Expansion(
                 [mechanism EXCEPT !.expanded =
                    Some(stubResult(targetDomain, Error(CircularText, targetDomain, 0)))],
                 c, None)
          ELSE LET counted == [c EXCEPT !.count = @ + 1]
               IN IF counted.count >= counted.maxLookups
                  THEN Expansion(
                         [mechanism EXCEPT !.expanded =
                            Some(stubResult(targetDomain,
                                            Error(LimitText, <<>>, counted.maxLookups)))],
                         counted, None)
                  ELSE Expansion(
                         mechanism,
                         [counted EXCEPT !.visited = @ \cup {toLowerCase(targetDomain)}],
                         Some(targetDomain))

\* expandMechanism as it would be without the test of lines 242-244
expandMechanismCountsAll(mechanism, c) ==
  IF mechanism.type # tINCLUDE /\ mechanism.type # tREDIRECT
  THEN Expansion(mechanism, [c EXCEPT !.count = @ + 1], None)
  ELSE LET targetDomain == mechanism.value
       IN IF targetDomain = <<>>
          THEN Expansion(
                 [mechanism EXCEPT !.expanded =
                    Some(stubResult(<<>>, Error(MissingDomainText, <<>>, 0)))],
                 c, None)
          ELSE IF toLowerCase(targetDomain) \in c.visited
          THEN Expansion(
                 [mechanism EXCEPT !.expanded =
                    Some(stubResult(targetDomain, Error(CircularText, targetDomain, 0)))],
                 c, None)
          ELSE LET counted == [c EXCEPT !.count = @ + 1]
               IN IF counted.count > counted.maxLookups
                  THEN Expansion(
                         [mechanism EXCEPT !.expanded =
                            Some(stubResult(targetDomain,
                                            Error(LimitText, <<>>, counted.maxLookups)))],
                         counted, None)
                  ELSE Expansion(
                         mechanism,
                         [counted EXCEPT !.visited = @ \cup {toLowerCase(targetDomain)}],
                         Some(targetDomain))

expandMechanism(mechanism, c) ==
  IF mechanism.type \notin LOOKUP_MECHANISMS
  THEN Expansion(mechanism, c, None)
  ELSE IF mechanism.type # tINCLUDE /\ mechanism.type # tREDIRECT
  THEN Expansion(mechanism, [c EXCEPT !.count = @ + 1], None)
  ELSE LET targetDomain == mechanism.value
       IN IF targetDomain = <<>>
          THEN Expansion(
                 [mechanism EXCEPT !.expanded =
                    Some(stubResult(<<>>, Error(MissingDomainText, <<>>, 0)))],
                 c, None)
          ELSE IF toLowerCase(targetDomain) \in c.visited
          THEN Expansion(
                 [mechanism EXCEPT !.expanded =
                    Some(stubResult(targetDomain, Error(CircularText, targetDomain, 0)))],
                 c, None)
          ELSE LET counted == [c EXCEPT !.count = @ + 1]
               IN IF counted.count > counted.maxLookups
                  THEN Expansion(
                         [mechanism EXCEPT !.expanded =
                            Some(stubResult(targetDomain,
                                            Error(LimitText, <<>>, counted.maxLookups)))],
                         counted, None)
                  ELSE Expansion(
                         mechanism,
                         [counted EXCEPT !.visited = @ \cup {toLowerCase(targetDomain)}],
                         Some(targetDomain))

\* ---------------------------------------------------------------- handler
LowerAlnum == Range(LowerLetters) \cup Digits

\* /^[a-z0-9][a-z0-9.-]*[a-z0-9]$/.test(s)
matchesDomainPattern(s) ==
  /\ Len(s) >= 2
  /\ s[1] \in LowerAlnum
  /\ s[Len(s)] \in LowerAlnum
  /\ \A i \in 2..(Len(s) - 1) : s[i] \in LowerAlnum \cup {".", "-"}

\* the two checks of GET before the lookup, lines 373-389: the 400 error, or ""
rejection(domain) ==
  IF domain = None \/ domain[1] = <<>> THEN "Domain is required"
  ELSE LET cleanDomain == toLowerCase(trim(domain[1]))
       IN IF ~matchesDomainPattern(cleanDomain) /\ Len(cleanDomain) > 1
          THEN "Invalid domain format"
          ELSE ""

\* lines 392-396
newLookupContext(cleanDomain) == LookupContext(0, MAX_DNS_LOOKUPS, {cleanDomain})

\* lines 400-406 as they would be with the test written > MAX_DNS_LOOKUPS + 1
withTooManyLate(result) ==
  IF result.lookupCount > MAX_DNS_LOOKUPS + 1
  THEN [result EXCEPT !.issues =
          Append(@, Error(TooManyText, <<>>, result.lookupCount))]
  ELSE result

\* lines 400-406
withTooMany(result) ==
  IF result.lookupCount > MAX_DNS_LOOKUPS
  THEN [result EXCEPT !.issues =
          Append(@, Error(TooManyText, <<>>, result.lookupCount))]
  ELSE result

\* ------------------------------------------------------- the DNS data tried
RECURSIVE joinSpace(_)
joinSpace(tokens) ==
  IF Len(tokens) = 1 THEN Head(tokens)
  ELSE Head(tokens) \o <<" ">> \o joinSpace(Tail(tokens))

dA == <<"a">>
dB == <<"b">>
dC == <<"c">>
minusAll == <<"-">> \o tALL
softAll == <<"~">> \o tALL
include(d) == tINCLUDE \o <<":">> \o d
redirect(d) == tREDIRECT \o <<"=">> \o d

recIncB == joinSpace(<<vspf1, include(dB), minusAll>>)
recMixed == joinSpace(<<vspf1, include(<<"B">>), tA, redirect(dC)>>)
recHeavy == joinSpace(<<vspf1, tA, tMX, tA, tMX, tA, tMX, tA, tMX, tA,
                        include(dB), include(dC)>>)
recBack == joinSpace(<<<<"V","=","S","P","F","1">>, include(dA),
                       <<"I","n","c","l","u","d","e",":","C">>, softAll>>)
recCount == joinSpace(<<vspf1, tA, <<"?">> \o tMX, minusAll>>)
recMissing == joinSpace(<<vspf1, tINCLUDE \o <<":">>, tPTR, minusAll, include(dC)>>)
recLeaf == joinSpace(<<vspf1, <<"i","p","4",":","1",".","2","/","8">>,
                       tEXISTS \o <<":","x">>, minusAll>>)
otherTxt == <<"k","e","y","=","1">>

quoted(s) == <<"\"">> \o s \o <<"\"">>
\* a TXT record cut into two character-strings after its sixth character
chunked(s) == <<SubSeq(s, 1, 6), SubSeq(s, 7, Len(s))>>
quotedChunks(s) == quoted(SubSeq(s, 1, 6)) \o <<" ">> \o quoted(SubSeq(s, 7, Len(s)))

Backends(native, doh) == [native |-> native, doh |-> doh]
viaNative(rec) ==
  Backends(NativeAnswer(<<<<otherTxt>>, chunked(rec)>>), DohStatus(2))
viaDohAfterError(rec) ==
  Backends(NativeError,
           DohAnswer(<<[type |-> 5, data |-> dC],
                       [type |-> TXT_TYPE, data |-> quoted(otherTxt)],
                       [type |-> TXT_TYPE, data |-> quotedChunks(rec)]>>))
viaDohAfterTimeout(rec) ==
  Backends(NativeSlow, DohAnswer(<<[type |-> TXT_TYPE, data |-> quoted(rec)]>>))
noTxt == Backends(NativeAnswer(<<>>), DohStatus(2))
noSpf == Backends(NativeAnswer(<<<<otherTxt>>>>), DohStatus(2))
nxDomain == Backends(NativeError, DohStatus(3))
dohDown == Backends(NativeSlow, DohHttpError(502))
dohNoTxt == Backends(NativeError, DohAnswer(<<[type |-> 5, data |-> dC]>>))

ChoicesA == {viaNative(recIncB), viaNative(recMixed), viaDohAfterTimeout(recHeavy), noTxt}
ChoicesB == {viaNative(recBack), viaDohAfterError(recCount), viaNative(recMissing),
             nxDomain, noSpf}
ChoicesC == {viaNative(recLeaf), viaDohAfterError(recIncB), dohDown, dohNoTxt}

MixedZones == {[n \in {dA, dB, dC} |-> IF n = dA THEN a ELSE IF n = dB THEN b ELSE c] :
                 a \in ChoicesA, b \in ChoicesB, c \in ChoicesC}

\* a chain of includes longer than the lookup budget: a -> n1 -> n2 -> ...
DigitSeq == <<"0","1","2","3","4","5","6","7","8","9">>
decimal(i) ==
  IF i < 10 THEN <<DigitSeq[i + 1]>> ELSE <<DigitSeq[(i \div 10) + 1], DigitSeq[(i % 10) + 1]>>
chainName(i) == IF i = 0 THEN dA ELSE <<"n">> \o decimal(i)
ChainNames == {chainName(i) : i \in 0..ChainLen}
chainIndex(name) == CHOOSE i \in 0..ChainLen : chainName(i) = name
ChainZone ==
  [n \in ChainNames |->
     IF chainIndex(n) < ChainLen
     THEN viaNative(joinSpace(<<vspf1, include(chainName(chainIndex(n) + 1)), minusAll>>))
     ELSE viaNative(recLeaf)]

Zones == MixedZones \cup {ChainZone}
\* the zones with a cycle, a failing include and an exhausted budget
FewZones ==
  {ChainZone,
   [n \in {dA, dB, dC} |-> IF n = dA THEN viaNative(recIncB)
                           ELSE IF n = dB THEN viaNative(recBack) ELSE dohDown],
   [n \in {dA, dB, dC} |-> IF n = dA THEN viaNative(recMixed)
                           ELSE IF n = dB THEN nxDomain ELSE viaDohAfterError(recIncB)],
   [n \in {dA, dB, dC} |-> IF n = dA THEN viaDohAfterTimeout(recHeavy)
                           ELSE IF n = dB THEN viaDohAfterError(recCount)
                           ELSE viaNative(recLeaf)]}

\* DNS names compare case-insensitively; a name the zone does not hold does
\* not exist
backendsFor(z, name) ==
  IF toLowerCase(name) \in DOMAIN z THEN z[toLowerCase(name)] ELSE nxDomain

\* the "domain" query parameters tried: absent, or a string
InputChars == {"a", "b", "c", "A", " ", ".", "-"}
RECURSIVE StringsUpTo(_)
StringsUpTo(n) ==
  IF n = 0 THEN {<<>>}
  ELSE LET shorter == StringsUpTo(n - 1)
       IN shorter \cup {Append(s, ch) : s \in shorter, ch \in InputChars}
QueryParams == {None} \cup {Some(s) : s \in StringsUpTo(MaxDomLen)}
FewQueryParams == {None, Some(<<"a">>), Some(<<" ", "B">>), Some(<<"c">>), Some(<<"a", "-">>)}

\* Math.round(performance.now() - startTime), in ms
QueryTimes == {0, 7}

Slots == {1, 2}

\* ---------------------------------------------------- resolveTxt (dns.ts)
ResolverTypes == {"native", "google", "cloudflare"}
DEFAULT_FALLBACK_RESOLVERS == <<"google", "cloudflare">>

RECURSIVE ListsUpTo(_)
ListsUpTo(n) ==
  IF n = 0 THEN {<<>>}
  ELSE LET shorter == ListsUpTo(n - 1)
       IN shorter \cup {Append(l, b) : l \in shorter, b \in ResolverTypes}

\* ResolveOptions with the defaults of lines 134-138 filled in
ResolveOptions(resolver, fallbackResolvers) ==
  [resolver |-> resolver, fallbackResolvers |-> fallbackResolvers]
OptionsTried ==
  {ResolveOptions(b, l) : b \in ResolverTypes,
                          l \in ListsUpTo(MaxFallbacks) \cup {DEFAULT_FALLBACK_RESOLVERS}}

\* a resolveTxt call: its options, where it is ("call", "direct", "race",
\* "fallback", "returned", "threw"), the fallback it awaits, lastError, the
\* backends invoked so far with how each settled ("pending", "ok", "failed",
\* and for the native one in the race "timeout"), and what it returned or threw
ResolveTxtCall(options, pc, k, lastError, invoked, outcome) ==
  [options |-> options, pc |-> pc, k |-> k, lastError |-> lastError,
   invoked |-> invoked, outcome |-> outcome]
Invocation(backend, settled) == [backend |-> backend, settled |-> settled]
\* the value resolved with, or the error thrown: whose it is (the n-th
\* invocation's), or the Error("All DNS resolvers failed") of line 172
Outcome(kind, n) == [kind |-> kind, n |-> n]
noOutcome == Outcome("none", 0)
AllFailed == Outcome("All DNS resolvers failed", 0)
noResolveTxt ==
  ResolveTxtCall(ResolveOptions("native", <<>>), "idle", 0, None, <<>>, noOutcome)
ResolveTxtCalls ==
  {ResolveTxtCall(o, "call", 0, None, <<>>, noOutcome) : o \in OptionsTried}

settle(invoked, how) == [invoked EXCEPT ![Len(invoked)].settled = how]

\* the for loop of lines 164-170 as it would be if it gave up at the first
\* fallback that fails
fallbackLoopGivesUp(c, k) ==
  IF k > Len(c.options.fallbackResolvers) \/ k > 1
  THEN [c EXCEPT !.pc = "threw",
                 !.outcome = IF c.lastError # None THEN c.lastError[1] ELSE AllFailed]
  ELSE [c EXCEPT !.pc = "fallback", !.k = k,
                 !.invoked = Append(@, Invocation(c.options.fallbackResolvers[k], "pending"))]

\* the for loop of lines 164-170 from its k-th turn, up to its await, or
\* the throw of line 172 after its last turn
fallbackLoop(c, k) ==
  IF k > Len(c.options.fallbackResolvers)
  THEN [c EXCEPT !.pc = "threw",
                 !.outcome = IF c.lastError # None THEN c.lastError[1] ELSE AllFailed]
  ELSE [c EXCEPT !.pc = "fallback", !.k = k,
                 !.invoked = Append(@, Invocation(c.options.fallbackResolvers[k], "pending"))]

\* -------------------------------------------------------------------- state
VARIABLES
  zone,       \* what the DNS backends answer, fixed for a behaviour
  queries,    \* the domain query parameters clients send, fixed for a behaviour
  checked,    \* whether expandMechanism consults ctx.visited (TRUE in the source)
  runsLeft,   \* per slot, the requests it may still start
  phase,      \* per slot: "idle", "running" (a GET is in progress), "done"
  request,    \* per slot: the domain query parameter of its current request
  ctx,        \* per slot: the LookupContext of its current request
  stack,      \* per slot: the lookupSpf activations, outermost first
  response,   \* per slot: the Response.json of its last finished request
  fetched,    \* per slot: the fetchSpfRecord calls of its current request, in
              \* order: the domain, and ctx.count at the call
  finished,   \* the results of the finished lookups, oldest first
  rt,         \* the one resolveTxt call of src/lib/dns.ts (SpecResolver)
  pr,         \* the one parseSpfRecord call made on its own (SpecParser)
  losers      \* the promises that lost a Promise.race and have not settled
              \* yet: the native lookup when the timer won, else the timer

vars == <<pr, losers, rt, zone, queries, checked, runsLeft, phase, request, ctx, stack, response, fetched, finished>>

\* a lookupSpf activation: awaiting the native race ("native"), awaiting the
\* DoH fallback ("doh"), or in its mechanism loop ("expand") before parsed.mechanisms[i]
Frame(domain, pc, record, parsed, i, out) ==
  [domain |-> domain, pc |-> pc, record |-> record, version |-> parsed.version,
   issues |-> parsed.issues, mechanisms |-> parsed.mechanisms, i |-> i,
   expandedMechanisms |-> out]
noParse == [version |-> "null", mechanisms |-> <<>>, issues |-> <<>>]
callLookupSpf(domain) == Frame(domain, "native", None, noParse, 1, <<>>)

noContext == LookupContext(0, MAX_DNS_LOOKUPS, {})

\* a parseSpfRecord call: its argument, where it is ("idle", "call",
\* "returned") and what it returned
ParseCall(record, pc, out) == [record |-> record, pc |-> pc, out |-> out]
noParseCall == ParseCall(<<>>, "idle", noParse)

\* the loser of a Promise.race, still pending: the race was run by the
\* request of slot `by` (0: by the resolveTxt call) for `domain`, and the
\* loser is the "native" lookup or the "timer"
Loser(by, domain, what) == [by |-> by, domain |-> domain, what |-> what]
noResponse == [status |-> 0, success |-> FALSE, error |-> "", result |-> None]
Response(status, success, error, result) ==
  [status |-> status, success |-> success, error |-> error, result |-> result]

top(r) == stack[r][Len(stack[r])]
depth(r) == Len(stack[r]) - 1

FetchCall(domain, count) == [domain |-> domain, count |-> count]

InitWith(zones, params, runs, chks, calls) ==
  /\ zone \in zones
  /\ queries = params
  /\ checked \in chks
  /\ runsLeft = runs
  /\ phase = [r \in Slots |-> "idle"]
  /\ request = [r \in Slots |-> None]
  /\ ctx = [r \in Slots |-> noContext]
  /\ stack = [r \in Slots |-> <<>>]
  /\ response = [r \in Slots |-> noResponse]
  /\ fetched = [r \in Slots |-> <<>>]
  /\ finished = <<>>
  /\ rt \in calls
  /\ pr = noParseCall
  /\ losers = {}

\* GET /api/spf?domain=..., up to its await of lookupSpf (lines 369-398)
HandlerGET(r, domain) ==
  /\ phase[r] # "running"
  /\ runsLeft[r] > 0
  /\ domain \in queries
  /\ runsLeft' = [runsLeft EXCEPT ![r] = @ - 1]
  /\ request' = [request EXCEPT ![r] = domain]
  /\ IF rejection(domain) # ""
     THEN /\ phase' = [phase EXCEPT ![r] = "done"]
          /\ response' = [response EXCEPT ![r] = Response(400, FALSE, rejection(domain), None)]
          /\ ctx' = [ctx EXCEPT ![r] = noContext]
          /\ fetched' = [fetched EXCEPT ![r] = <<>>]
          /\ UNCHANGED stack
     ELSE LET cleanDomain == toLowerCase(trim(domain[1]))
          IN /\ phase' = [phase EXCEPT ![r] = "running"]
             /\ response' = [response EXCEPT ![r] = noResponse]
             /\ ctx' = [ctx EXCEPT ![r] = newLookupContext(cleanDomain)]
             /\ stack' = [stack EXCEPT ![r] = <<callLookupSpf(cleanDomain)>>]
             /\ fetched' = [fetched EXCEPT ![r] = <<FetchCall(cleanDomain, 0)>>]
  /\ UNCHANGED <<pr, losers, rt, zone, queries, checked, finished>>

\* a lookupSpf activation returns `result`: to the expandMechanism that
\* awaited it (lines 314-319, then 354), or to GET (lines 398-411)
Returns(r, result) ==
  LET callers == SubSeq(stack[r], 1, Len(stack[r]) - 1)
  IN IF callers = <<>>
     THEN /\ stack' = [stack EXCEPT ![r] = <<>>]
          /\ phase' = [phase EXCEPT ![r] = "done"]
          /\ response' = [response EXCEPT ![r] = Response(200, TRUE, "", Some(withTooMany(result)))]
          /\ finished' = Append(finished, withTooMany(result))
     ELSE LET caller == callers[Len(callers)]
              mechanism == caller.mechanisms[caller.i]
              expanded == [mechanism EXCEPT !.expanded = Some(result)]
          IN /\ stack' = [stack EXCEPT ![r] =
                            [callers EXCEPT ![Len(callers)] =
                               [caller EXCEPT !.expandedMechanisms = Append(@, expanded),
                                              !.i = @ + 1]]]
             /\ UNCHANGED <<phase, response, finished>>

\* lookupSpf as it would be if a missing record were thrown, not returned:
\* the rejection reaches the catch of GET (lines 412-420)
FetchedOrThrows(r, spfResult) ==
  LET f == top(r)
  IN IF spfResult.record = None
     THEN /\ stack' = [stack EXCEPT ![r] = <<>>]
          /\ phase' = [phase EXCEPT ![r] = "done"]
          /\ response' = [response EXCEPT ![r] = Response(500, FALSE, "SPF lookup failed", None)]
          /\ UNCHANGED finished
     ELSE /\ stack' = [stack EXCEPT ![r][Len(stack[r])] =
                         Strict(parseSpfRecord(spfResult.record[1]), LAMBDA parsed :
                           Frame(f.domain, "expand", spfResult.record, parsed, 1, <<>>))]
          /\ UNCHANGED <<phase, response, finished>>

\* lookupSpf after its await of fetchSpfRecord (lines 331-349)
Fetched(r, spfResult) ==
  LET f == top(r)
  IN IF spfResult.record = None
     THEN \E queryTime \in QueryTimes :
            Returns(r, SpfResult(f.domain, None, "null", <<>>, ctx[r].count,
                                 <<IF spfResult.error # None
                                   THEN Error(spfResult.error[1].text, <<>>, spfResult.error[1].n)
                                   ELSE Error("No SPF record found for", f.domain, 0)>>,
                                 queryTime))
     ELSE /\ stack' = [stack EXCEPT ![r][Len(stack[r])] =
                         Strict(parseSpfRecord(spfResult.record[1]), LAMBDA parsed :
                           Frame(f.domain, "expand", spfResult.record, parsed, 1, <<>>))]
          /\ UNCHANGED <<phase, response, finished>>

\* the race of fetchSpfRecord settles (lines 104-112): the native answer, or
\* its rejection or the timer's, which starts the DoH request
NativeSettles(r) ==
  /\ phase[r] = "running"
  /\ top(r).pc = "native"
  /\ LET native == backendsFor(zone, top(r).domain).native
     IN IF native.kind = "answer"
        THEN \E spfResult \in {fetchSpfRecordNative(native.records)} :
               Fetched(r, spfResult)
        ELSE /\ stack' = [stack EXCEPT ![r][Len(stack[r])].pc = "doh"]
             /\ UNCHANGED <<phase, response, finished>>
  /\ losers' = losers \cup {Loser(r, top(r).domain,
                                  IF backendsFor(zone, top(r).domain).native.kind = "slow"
                                  THEN "native" ELSE "timer")}
  /\ UNCHANGED <<pr, rt, zone, queries, checked, runsLeft, request, ctx, fetched>>

\* the DoH request of fetchSpfRecord settles (lines 113-123)
DohSettles(r) ==
  /\ phase[r] = "running"
  /\ top(r).pc = "doh"
  /\ \E got \in {fetchSpfRecordViaDoh(backendsFor(zone, top(r).domain).doh)} :
       Fetched(r, IF got.threw THEN dohFailed(got.error) ELSE got.result)
  /\ UNCHANGED <<pr, losers, rt, zone, queries, checked, runsLeft, request, ctx, fetched>>

\* the context expandMechanism would be given if the visited set were one
\* object shared by the requests in flight
seenBySharedVisited(c) == [c EXCEPT !.visited = UNION {ctx[q].visited : q \in Slots}]

\* the context expandMechanism would be given if the visited set were kept
\* from one request to the next
seenByKeptVisited(c) ==
  [c EXCEPT !.visited =
     @ \cup UNION {{toLowerCase(m.value) : m \in Range(finished[k].mechanisms)} :
                     k \in DOMAIN finished}]

\* the context expandMechanism would be given if a domain were taken out of
\* the visited set when the lookupSpf call for it returns
seenByPathOnly(c) ==
  LET r == CHOOSE q \in Slots : ctx[q] = c
  IN [c EXCEPT !.visited = {toLowerCase(stack[r][k].domain) : k \in DOMAIN stack[r]}]

\* the context expandMechanism is given: in the variant without cycle
\* detection it never finds the target in ctx.visited
seenBy(c) == IF checked THEN c ELSE [c EXCEPT !.visited = {}]

\* one turn of the loop of lookupSpf, lines 352-355: expandMechanism on the
\* next mechanism, up to its return or its call of lookupSpf
ExpandStep(r) ==
  /\ phase[r] = "running"
  /\ top(r).pc = "expand"
  /\ top(r).i <= Len(top(r).mechanisms)
  /\ LET f == top(r)
         e == expandMechanism(f.mechanisms[f.i], seenBy(ctx[r]))
     IN /\ ctx' = [ctx EXCEPT ![r] =
                     [e.ctx EXCEPT !.visited = @ \cup ctx[r].visited]]
        /\ IF e.call = None
           THEN /\ stack' = [stack EXCEPT ![r][Len(stack[r])] =
                               [f EXCEPT !.expandedMechanisms = Append(@, e.mechanism),
                                         !.i = @ + 1]]
                /\ UNCHANGED fetched
           ELSE /\ stack' = [stack EXCEPT ![r] = Append(@, callLookupSpf(e.call[1]))]
                /\ fetched' = [fetched EXCEPT ![r] = Append(@, FetchCall(e.call[1], e.ctx.count))]
  /\ UNCHANGED <<pr, losers, rt, zone, queries, checked, runsLeft, phase, request, response, finished>>

\* lookupSpf returning after its loop as it would if it kept, for
\* lookupCount, the counter it read when its fetch completed
LoopDoneCountAtFetch(r) ==
  /\ phase[r] = "running"
  /\ top(r).pc = "expand"
  /\ top(r).i > Len(top(r).mechanisms)
  /\ LET f == top(r)
         own == CHOOSE i \in DOMAIN fetched[r] : fetched[r][i].domain = f.domain
     IN \E queryTime \in QueryTimes :
          Returns(r, SpfResult(f.domain, f.record, f.version, f.expandedMechanisms,
                               fetched[r][own].count, f.issues, queryTime))
  /\ UNCHANGED <<pr, losers, rt, zone, queries, checked, runsLeft, request, ctx, fetched>>

\* lookupSpf returns after its loop (lines 357-365)
LoopDone(r) ==
  /\ phase[r] = "running"
  /\ top(r).pc = "expand"
  /\ top(r).i > Len(top(r).mechanisms)
  /\ LET f == top(r)
     IN \E queryTime \in QueryTimes :
          Returns(r, SpfResult(f.domain, f.record, f.version, f.expandedMechanisms,
                               ctx[r].count, f.issues, queryTime))
  /\ UNCHANGED <<pr, losers, rt, zone, queries, checked, runsLeft, request, ctx, fetched>>

\* resolveTxt is called (lines 130-158): it calls the resolver asked for,
\* or starts the race of the native one against the timer
ResolveTxt ==
  /\ rt.pc = "call"
  /\ rt' = [rt EXCEPT !.pc = IF rt.options.resolver # "native" THEN "direct" ELSE "race",
                      !.invoked = <<Invocation(rt.options.resolver, "pending")>>]
  /\ UNCHANGED <<pr, losers, zone, queries, checked, runsLeft, phase, request, ctx, stack,
                 response, fetched, finished>>

\* the promise returned at line 148 settles
DirectSettles ==
  /\ rt.pc = "direct"
  /\ \E how \in {"ok", "failed"} :
       rt' = [rt EXCEPT !.pc = IF how = "ok" THEN "returned" ELSE "threw",
                        !.invoked = settle(@, how),
                        !.outcome = Outcome(how, 1)]
  /\ UNCHANGED <<pr, losers, zone, queries, checked, runsLeft, phase, request, ctx, stack,
                 response, fetched, finished>>

\* the race of lines 153-158 settles: the native answer, or the native
\* rejection or the timer's, caught at line 160
RaceSettles ==
  /\ rt.pc = "race"
  /\ \E how \in {"ok", "failed", "timeout"} :
       IF how = "ok"
       THEN rt' = [rt EXCEPT !.pc = "returned", !.invoked = settle(@, how),
                             !.outcome = Outcome(how, 1)]
       ELSE rt' = fallbackLoop([rt EXCEPT !.invoked = settle(@, how), !.lastError = None], 1)
  /\ \E how \in {rt'.invoked[1].settled} :
       losers' = losers \cup {Loser(0, <<>>, IF how = "timeout" THEN "native" ELSE "timer")}
  /\ UNCHANGED <<pr, zone, queries, checked, runsLeft, phase, request, ctx, stack,
                 response, fetched, finished>>

\* the fallback awaited at line 166 settles
FallbackSettles ==
  /\ rt.pc = "fallback"
  /\ \E how \in {"ok", "failed"} :
       IF how = "ok"
       THEN rt' = [rt EXCEPT !.pc = "returned", !.invoked = settle(@, how),
                             !.outcome = Outcome(how, Len(rt.invoked))]
       ELSE rt' = fallbackLoop([rt EXCEPT !.invoked = settle(@, how),
                                          !.lastError = Some(Outcome(how, Len(rt.invoked)))],
                               rt.k + 1)
  /\ UNCHANGED <<pr, losers, zone, queries, checked, runsLeft, phase, request, ctx, stack,
                 response, fetched, finished>>

\* native lookup that lost its race answers at last, as it would be if the
\* request still awaiting the DoH answer took what arrives first
LoserSettlesObserved(l) ==
  /\ l \in losers
  /\ losers' = losers \ {l}
  /\ IF /\ l.by \in Slots
        /\ l.what = "native"
        /\ phase[l.by] = "running"
        /\ top(l.by).pc = "doh"
        /\ top(l.by).domain = l.domain
     THEN \E spfResult \in {fetchSpfRecordNative(backendsFor(zone, l.domain).native.records)} :
            Fetched(l.by, spfResult)
     ELSE UNCHANGED <<phase, stack, response, finished>>
  /\ UNCHANGED <<pr, rt, zone, queries, checked, runsLeft, request, ctx, fetched>>

\* the loser of a race settles: the native lookup answers or fails after the
\* timer has rejected, or the timer rejects after the native lookup has
\* settled. Promise.race has settled already and nothing else awaits the
\* loser (spf.ts lines 105-110, dns.ts lines 153-158).
LoserSettles(l) ==
  /\ l \in losers
  /\ losers' = losers \ {l}
  /\ UNCHANGED <<pr, rt, zone, queries, checked, runsLeft, phase, request, ctx, stack,
                 response, fetched, finished>>

NextResolver == ResolveTxt \/ DirectSettles \/ RaceSettles \/ FallbackSettles

Next ==
  \E r \in Slots :
    \/ \E domain \in QueryParams : HandlerGET(r, domain)
    \/ NativeSettles(r)
    \/ DohSettles(r)
    \/ ExpandStep(r)
    \/ LoopDone(r)

\* one request
OneRequest == [r \in Slots |-> IF r = 1 THEN 1 ELSE 0]
Init == InitWith(Zones, QueryParams, OneRequest, {TRUE}, {noResolveTxt})
Spec == Init /\ [][Next]_vars

\* one request, in the source as it is and in its variant without the
\* ctx.visited test; every await settles and every continuation is run
Progress(r) == NativeSettles(r) \/ DohSettles(r) \/ ExpandStep(r) \/ LoopDone(r)
InitTermination ==
  InitWith(FewZones, FewQueryParams, OneRequest, {TRUE, FALSE}, {noResolveTxt})
SpecTermination ==
  InitTermination /\ [][Next]_vars /\ \A r \in Slots : WF_vars(Progress(r))

\* one resolveTxt call, no request
NoRequest == [r \in Slots |-> 0]
InitResolver == InitWith({ChainZone}, {}, NoRequest, {TRUE}, ResolveTxtCalls)
SpecResolver == InitResolver /\ [][NextResolver]_vars

\* ------------------------------------------------------- the result trees
\* every SpfResult of the tree under `result`, itself included
RECURSIVE nodesOf(_)
nodesOf(tree) ==
  Strict(tree, LAMBDA result :
    {result} \cup UNION {nodesOf(result.mechanisms[i].expanded[1]) :
                           i \in {j \in DOMAIN result.mechanisms :
                                    result.mechanisms[j].expanded # None}})

\* the sub-results attached so far by slot r's activations
attachedBy(f) ==
  UNION {nodesOf(f.expandedMechanisms[i].expanded[1]) :
           i \in {j \in DOMAIN f.expandedMechanisms :
                    f.expandedMechanisms[j].expanded # None}}
attached(r) == UNION {attachedBy(stack[r][k]) : k \in DOMAIN stack[r]}

answered(r) == phase[r] = "done" /\ response[r].status = 200
\* every SpfResult slot r's current request has produced
produced(r) ==
  attached(r) \cup (IF answered(r) THEN nodesOf(response[r].result[1]) ELSE {})

texts(result) == {result.issues[i].text : i \in DOMAIN result.issues}
StubTexts == {MissingDomainText, CircularText, LimitText}

\* slot r is about to run expandMechanism on mechanism cur(r)
expanding(r) ==
  /\ phase[r] = "running"
  /\ top(r).pc = "expand"
  /\ top(r).i <= Len(top(r).mechanisms)
cur(r) == top(r).mechanisms[top(r).i]
\* ... and `stepped` holds of the step in which it does
stepped(r) == stack'[r] # stack[r]
\* the mechanism that step pushed on expandedMechanisms, when it made no call
pushed(r) == stack'[r][Len(stack[r])].expandedMechanisms[top(r).i]
madeNoCall(r) ==
  /\ Len(stack'[r]) = Len(stack[r])
  /\ stack'[r][Len(stack[r])].i = top(r).i + 1
  /\ Len(stack'[r][Len(stack[r])].expandedMechanisms) = top(r).i
  /\ fetched'[r] = fetched[r]
isReference(m) == m.type \in {tINCLUDE, tREDIRECT}

\* the lower-cased domains of a sequence of fetchSpfRecord calls
fetchedNames(calls) == map(calls, LAMBDA call : toLowerCase(call.domain))

\* ------------------------------------------------------------------ claims

\* C1 as stated: the shared counter ctx.count never exceeds maxLookups + 1 = 11,
\* and no Result carries a lookupCount above 11.
C1_CounterAtMostEleven ==
  \A r \in Slots :
    /\ ctx[r].count <= MAX_DNS_LOOKUPS + 1
    /\ \A res \in produced(r) : res.lookupCount <= MAX_DNS_LOOKUPS + 1

\* C1 amended: the counter is not capped, it is the fetches that are. Every
\* nested fetch of a request is issued with the counter at most maxLookups
\* and above its value at the previous fetch, so a request makes at most
\* maxLookups nested fetches, and the counter is never below the number of
\* nested fetches.
C1_FetchesWithinBudget ==
  \A r \in Slots :
    /\ \A i \in 2..Len(fetched[r]) :
         /\ fetched[r][i].count <= MAX_DNS_LOOKUPS
         /\ fetched[r][i].count > fetched[r][i - 1].count
         /\ fetched[r][i].count <= ctx[r].count
    /\ Len(fetched[r]) <= MAX_DNS_LOOKUPS + 1
    /\ Len(fetched[r]) - 1 <= ctx[r].count

\* a request whose counter passed 11 after a nested fetch at counter 10
C1_Witness ==
  \E r \in Slots :
    /\ ctx[r].count > MAX_DNS_LOOKUPS + 1
    /\ \E i \in 2..Len(fetched[r]) : fetched[r][i].count = MAX_DNS_LOOKUPS

\* the domains fetched by a request are distinct, names compared without
\* case, and all in ctx.visited
C2_FetchedOnce ==
  \A r \in Slots :
    LET names == fetchedNames(fetched[r])
    IN /\ \A i, j \in DOMAIN names : names[i] = names[j] => i = j
       /\ \A i \in DOMAIN names : names[i] \in ctx[r].visited

\* expandMechanism on an include/redirect whose target is in ctx.visited
C2_CycleStep ==
  \A r \in Slots :
    (/\ expanding(r)
     /\ isReference(cur(r))
     /\ toLowerCase(cur(r).value) \in ctx[r].visited
     /\ stepped(r))
    => /\ madeNoCall(r)
       /\ ctx'[r] = ctx[r]
       /\ pushed(r) = [cur(r) EXCEPT !.expanded =
                         Some(SpfResult(cur(r).value, None, "null", <<>>, 0,
                                        <<Error(CircularText, cur(r).value, 0)>>, 0))]

\* C2: within a request no domain is fetched twice, names compared without
\* case; every fetched domain is in ctx.visited from before its fetch; and an
\* include/redirect whose lower-cased target is in ctx.visited makes no
\* fetch, leaves ctx.count alone and gets a sub-result with no mechanisms
\* and the one error "Circular reference detected".
C2_NoRefetch == []C2_FetchedOnce /\ [][C2_CycleStep]_vars

\* a includes b and b includes a: the answer for a carries, under b's
\* include:a, the single cycle error, and a was fetched once
C2_Witness ==
  \E r \in Slots :
    /\ answered(r)
    /\ LET res == response[r].result[1]
       IN /\ res.domain = dA
          /\ \E i \in DOMAIN res.mechanisms :
               /\ res.mechanisms[i].type = tINCLUDE
               /\ toLowerCase(res.mechanisms[i].value) = dB
               /\ res.mechanisms[i].expanded # None
               /\ LET sub == res.mechanisms[i].expanded[1]
                  IN \E k \in DOMAIN sub.mechanisms :
                       /\ sub.mechanisms[k].type = tINCLUDE
                       /\ sub.mechanisms[k].value = dA
                       /\ sub.mechanisms[k].expanded # None
                       /\ sub.mechanisms[k].expanded[1].issues =
                            <<Error(CircularText, dA, 0)>>
    /\ Cardinality({i \in DOMAIN fetched[r] : fetched[r][i].domain = dA}) = 1

\* expandMechanism on an include/redirect with a target not yet visited
C3_BudgetStep ==
  \A r \in Slots :
    (/\ expanding(r)
     /\ isReference(cur(r))
     /\ cur(r).value # <<>>
     /\ toLowerCase(cur(r).value) \notin ctx[r].visited
     /\ stepped(r))
    => /\ ctx'[r].count = ctx[r].count + 1
       /\ IF ctx'[r].count <= MAX_DNS_LOOKUPS
          THEN /\ stack'[r] = Append(stack[r], callLookupSpf(cur(r).value))
               /\ fetched'[r] = Append(fetched[r], FetchCall(cur(r).value, ctx'[r].count))
               /\ ctx'[r].visited = ctx[r].visited \cup {toLowerCase(cur(r).value)}
          ELSE /\ madeNoCall(r)
               /\ ctx'[r].visited = ctx[r].visited
               /\ pushed(r) = [cur(r) EXCEPT !.expanded =
                                 Some(SpfResult(cur(r).value, None, "null", <<>>, 0,
                                                <<Error(LimitText, <<>>, MAX_DNS_LOOKUPS)>>, 0))]

\* C3: an include/redirect with a non-empty target not yet visited
\* increments ctx.count, then fetches if and only if the incremented count
\* is at most maxLookups; above it the mechanism gets the one error "DNS
\* lookup limit exceeded", nothing is fetched and ctx.visited is unchanged.
\* So a request makes at most 10 nested fetches after its top-level one.
C3_FetchIffWithinBudget ==
  /\ [][C3_BudgetStep]_vars
  /\ [](\A r \in Slots : Len(fetched[r]) <= MAX_DNS_LOOKUPS + 1)

\* the tenth nested fetch has been made and a later include was refused
C3_Witness ==
  \E r \in Slots :
    /\ Len(fetched[r]) = MAX_DNS_LOOKUPS + 1
    /\ \E res \in attached(r) : LimitText \in texts(res)

\* the backend whose answer fetchSpfRecord uses holds no TXT record for name
noTxtAtAll(z, name) ==
  LET b == backendsFor(z, name)
  IN IF b.native.kind = "answer" THEN b.native.records = <<>>
     ELSE b.doh.kind = "answer" /\ b.doh.status = 0 /\ filterTxt(b.doh.answer) = <<>>

\* a result that came from a fetch, not built by expandMechanism
fromFetch(result) == texts(result) \cap StubTexts = {}

\* the tree holds, at every node with a record, all mechanisms of the record
\* in source order
RECURSIVE complete(_)
complete(result) ==
  IF result.record = None THEN result.mechanisms = <<>>
  ELSE LET parsed == parseSpfRecord(result.record[1])
       IN /\ Len(result.mechanisms) = Len(parsed.mechanisms)
          /\ \A i \in DOMAIN result.mechanisms :
               /\ [result.mechanisms[i] EXCEPT !.expanded = None] = parsed.mechanisms[i]
               /\ result.mechanisms[i].expanded # None
                    => complete(result.mechanisms[i].expanded[1])

\* C4: a fetch that fails on every backend, or finds no v=spf1 record, makes
\* lookupSpf return a Result with record = null, version = null, no
\* mechanisms and exactly one error ("No TXT records found" when the domain
\* has no TXT record at all); the caller goes on with its other mechanisms,
\* and every request that passed validation is answered 200, success = true,
\* with the complete tree.
C4_FailuresAreResults ==
  \A r \in Slots :
    /\ \A res \in produced(r) :
         res.record = None
           => /\ res.version = "null"
              /\ res.mechanisms = <<>>
              /\ Len(res.issues) = 1
              /\ res.issues[1].type = "error"
              /\ (fromFetch(res) /\ noTxtAtAll(zone, res.domain))
                   => res.issues[1].text = "No TXT records found"
    /\ (phase[r] = "done" /\ rejection(request[r]) = "")
         => /\ response[r].status = 200
            /\ response[r].success
            /\ response[r].result # None
            /\ complete(response[r].result[1])

\* an include whose fetch failed on both backends, then a later mechanism of
\* the same record expanded into a fetched record, in a 200 answer
C4_Witness ==
  \E r \in Slots :
    /\ answered(r)
    /\ LET ms == response[r].result[1].mechanisms
       IN \E i, j \in DOMAIN ms :
            /\ i < j
            /\ ms[i].expanded # None
            /\ ms[i].expanded[1].record = None
            /\ ms[i].expanded[1].issues =
                 <<Error("DNS lookup failed: DNS query failed with status", <<>>, 3)>>
            /\ ms[j].expanded # None
            /\ ms[j].expanded[1].record # None

\* C6: the answer's issue list holds "Too many DNS lookups" once if the
\* request's counter ended above 10 and not otherwise; no nested Result ever
\* holds it; and an answer with a nested "DNS lookup limit exceeded" holds it.
tooManyIn(result) ==
  Cardinality({i \in DOMAIN result.issues : result.issues[i].text = TooManyText})

C6_TooManyOnceAtTop ==
  \A r \in Slots :
    /\ \A res \in attached(r) : TooManyText \notin texts(res)
    /\ answered(r)
         => LET res == response[r].result[1]
            IN /\ tooManyIn(res) = (IF ctx[r].count > MAX_DNS_LOOKUPS THEN 1 ELSE 0)
               /\ \A sub \in attachedBy([expandedMechanisms |-> res.mechanisms]) :
                    TooManyText \notin texts(sub)
               /\ (\E sub \in nodesOf(res) : LimitText \in texts(sub))
                    => TooManyText \in texts(res)

\* an answer whose counter ended at exactly 11, with a refused include below
C6_Witness ==
  \E r \in Slots :
    /\ answered(r)
    /\ ctx[r].count = MAX_DNS_LOOKUPS + 1
    /\ \E sub \in nodesOf(response[r].result[1]) : LimitText \in texts(sub)
    /\ tooManyIn(response[r].result[1]) = 1

\* C7 as stated: a request whose domain is missing, empty after trimming, or
\* longer than 1 and not matching the pattern is answered 400 with no result
\* and no fetch; only a non-empty domain reaches lookupSpf.
C7_BlankIsRejected ==
  \A r \in Slots :
    phase[r] # "idle"
      => IF \/ request[r] = None
            \/ trim(request[r][1]) = <<>>
            \/ /\ Len(trim(request[r][1])) > 1
               /\ ~matchesDomainPattern(toLowerCase(trim(request[r][1])))
         THEN /\ phase[r] = "done"
              /\ response[r] = Response(400, FALSE, response[r].error, None)
              /\ fetched[r] = <<>>
         ELSE /\ fetched[r] # <<>>
              /\ fetched[r][1].domain = toLowerCase(trim(request[r][1]))
              /\ fetched[r][1].domain # <<>>

\* the backends configured, in order: the primary, then the fallback list
configured(c) == <<c.options.resolver>> \o c.options.fallbackResolvers
settled(c) == c.pc \in {"returned", "threw"}
isPrefix(a, b) == Len(a) <= Len(b) /\ a = SubSeq(b, 1, Len(a))
backendsOf(c) == [i \in DOMAIN c.invoked |-> c.invoked[i].backend]

\* C5 as stated: backends are tried in the configured order, each configured
\* backend at most once, the first success is returned with no later backend
\* invoked, and the call fails only after the primary and every fallback has
\* failed, with the cause of the last backend tried.
C5_EveryBackendTried ==
  /\ isPrefix(backendsOf(rt), configured(rt))
  /\ \A i, j \in DOMAIN rt.invoked : rt.invoked[i].backend = rt.invoked[j].backend => i = j
  /\ rt.pc = "returned"
       => /\ rt.outcome = Outcome("ok", Len(rt.invoked))
          /\ \A i \in 1..(Len(rt.invoked) - 1) : rt.invoked[i].settled \in {"failed", "timeout"}
  /\ rt.pc = "threw"
       => /\ backendsOf(rt) = configured(rt)
          /\ \A i \in DOMAIN rt.invoked : rt.invoked[i].settled \in {"failed", "timeout"}
          /\ rt.outcome = Outcome(rt.invoked[Len(rt.invoked)].settled, Len(rt.invoked))

\* C5 amended: the fallback list is used only when the primary is the native
\* backend. Then the entries of the chain (native, then the list in list
\* order) are invoked in order, each entry once at most (a backend listed
\* twice is invoked twice), the first success is returned with no later
\* entry invoked, and the call fails only after native and every entry of
\* the list has failed, with the cause of the last entry of the list, or
\* "All DNS resolvers failed" when the list is empty. With any other primary,
\* that backend alone is invoked, once, and its result or failure is the
\* call's.
C5_NativeChain ==
  IF rt.options.resolver = "native"
  THEN /\ isPrefix(backendsOf(rt), configured(rt))
       /\ \A i \in 1..(Len(rt.invoked) - 1) : rt.invoked[i].settled \in {"failed", "timeout"}
       /\ rt.pc = "returned"
            => /\ rt.invoked[Len(rt.invoked)].settled = "ok"
               /\ rt.outcome = Outcome("ok", Len(rt.invoked))
       /\ rt.pc = "threw"
            => /\ backendsOf(rt) = configured(rt)
               /\ \A i \in DOMAIN rt.invoked : rt.invoked[i].settled \in {"failed", "timeout"}
               /\ rt.outcome = IF rt.options.fallbackResolvers = <<>> THEN AllFailed
                               ELSE Outcome("failed", Len(rt.invoked))
  ELSE /\ rt.pc # "call" => backendsOf(rt) = <<rt.options.resolver>>
       /\ settled(rt) => rt.outcome = Outcome(rt.invoked[1].settled, 1)
       /\ rt.pc = "returned" <=> (settled(rt) /\ rt.invoked[1].settled = "ok")

\* native timed out, the first fallback failed, the second answered
C5_Witness ==
  /\ rt.pc = "returned"
  /\ rt.options = ResolveOptions("native", DEFAULT_FALLBACK_RESOLVERS)
  /\ rt.invoked = <<Invocation("native", "timeout"), Invocation("google", "failed"),
                    Invocation("cloudflare", "ok")>>

\* lookupSpf is never nested more than 10 deep below the top-level call
C8_DepthBounded == \A r \in Slots : depth(r) <= MAX_DNS_LOOKUPS

\* C8: every request ends, whatever the include/redirect graph, cyclic ones
\* included, and lookupSpf is never nested more than 10 deep below the
\* top-level call; both also without the ctx.visited test.
C8_Terminates ==
  /\ []C8_DepthBounded
  /\ \A r \in Slots : (phase[r] = "running") ~> (phase[r] = "done")

\* without the ctx.visited test, a and b including each other: the tenth
\* nested call, of a domain already on the call stack
C8_Witness ==
  \E r \in Slots :
    /\ ~checked
    /\ depth(r) = MAX_DNS_LOOKUPS
    /\ stack[r][1].domain = stack[r][3].domain

\* ------------------------------------------- a request run on its own
\* fetchSpfRecord (lines 103-125) against zone z: the native answer, or the
\* DoH one after the native rejection or the timer's
fetchSpfRecord(z, domain) ==
  LET backends == backendsFor(z, domain)
      got == fetchSpfRecordViaDoh(backends.doh)
  IN IF backends.native.kind = "answer"
     THEN fetchSpfRecordNative(backends.native.records)
     ELSE IF got.threw THEN dohFailed(got.error) ELSE got.result

\* lookupSpf (lines 322-366) run to completion with no other request in
\* flight: its Result, with every queryTime 0, and the context as it leaves it
RECURSIVE lookupSpf(_, _, _)
RECURSIVE expandFrom(_, _, _, _)
lookupSpf(z, domain, c) ==
  LET spfResult == fetchSpfRecord(z, domain)
      parsed == parseSpfRecord(spfResult.record[1])
      expanded == expandFrom(z, parsed.mechanisms, 1, c)
  IN IF spfResult.record = None
     THEN [result |-> SpfResult(domain, None, "null", <<>>, c.count,
                                <<IF spfResult.error # None
                                  THEN Error(spfResult.error[1].text, <<>>, spfResult.error[1].n)
                                  ELSE Error("No SPF record found for", domain, 0)>>,
                                0),
           ctx |-> c]
     ELSE [result |-> SpfResult(domain, spfResult.record, parsed.version,
                                expanded.mechanisms, expanded.ctx.count, parsed.issues, 0),
           ctx |-> expanded.ctx]

\* the loop of lines 352-355 from mechanisms[i] on
expandFrom(z, mechanisms, i, c) ==
  IF i > Len(mechanisms) THEN [mechanisms |-> <<>>, ctx |-> c]
  ELSE LET e == expandMechanism(mechanisms[i], c)
           sub == lookupSpf(z, e.call[1], e.ctx)
           m == IF e.call = None THEN e.mechanism
                ELSE [e.mechanism EXCEPT !.expanded = Some(sub.result)]
           rest == expandFrom(z, mechanisms, i + 1, IF e.call = None THEN e.ctx ELSE sub.ctx)
       IN [mechanisms |-> <<m>> \o rest.mechanisms, ctx |-> rest.ctx]

\* GET (lines 391-411) run on its own for a domain that passed validation
alone(z, domain) ==
  LET cleanDomain == toLowerCase(trim(domain[1]))
      done == lookupSpf(z, cleanDomain, newLookupContext(cleanDomain))
  IN [result |-> withTooMany(done.result), ctx |-> done.ctx]

\* `result` with every queryTime of its tree set to 0
RECURSIVE untimed(_)
untimed(result) ==
  [result EXCEPT !.queryTime = 0,
                 !.mechanisms =
                   [i \in DOMAIN result.mechanisms |->
                      IF result.mechanisms[i].expanded = None THEN result.mechanisms[i]
                      ELSE [result.mechanisms[i] EXCEPT
                              !.expanded = Some(untimed(result.mechanisms[i].expanded[1]))]]
                   \o <<>>]

\* two requests in flight at once, each slot one
TwoRequests == [r \in Slots |-> 1]
ConcurrentZones == FewZones \ {ChainZone}
ConcurrentQueryParams == {q \in FewQueryParams : rejection(q) = ""}
InitConcurrent ==
  InitWith(ConcurrentZones, ConcurrentQueryParams, TwoRequests, {TRUE}, {noResolveTxt})
SpecConcurrent == InitConcurrent /\ [][Next]_vars

\* a request that passes validation starts with a context of its own
C9_OwnContext ==
  \A r \in Slots :
    (phase[r] # "running" /\ phase'[r] = "running")
      => ctx'[r] = LookupContext(0, MAX_DNS_LOOKUPS, {toLowerCase(trim(request'[r][1]))})

\* an answered request ended as it ends when run on its own
C9_AsAlone ==
  \A r \in Slots :
    answered(r)
      => LET ran == alone(zone, request[r])
         IN /\ ctx[r].count = ran.ctx.count
            /\ ctx[r].visited = ran.ctx.visited
            /\ untimed(response[r].result[1]) = ran.result

\* C9: concurrent requests are isolated. A request that passes validation
\* starts with a context of its own, count 0 and visited = {its domain}; and
\* however the steps of two requests interleave at their awaits, a request is
\* answered with the counter, the visited set and the Result tree (queryTime
\* aside) that it gets when it runs with no other request in flight.
C9_Isolated == []C9_AsAlone /\ [][C9_OwnContext]_vars

\* both requests suspended below their top level, for different domains, each
\* having counted lookups of its own
C9_Witness ==
  /\ \A r \in Slots : phase[r] = "running" /\ depth(r) >= 1 /\ top(r).pc \in {"native", "doh"}
  /\ stack[1][1].domain # stack[2][1].domain
  /\ ctx[1].count >= 2
  /\ ctx[2].count >= 1
  /\ ctx[1].visited \cap ctx[2].visited # {}

\* one client validating again and again, each request after the answer to
\* the one before
Reruns == [r \in Slots |-> IF r = 1 THEN MaxRuns ELSE 0]
InitRerun ==
  InitWith(ConcurrentZones, ConcurrentQueryParams, Reruns, {TRUE}, {noResolveTxt})
SpecRerun == InitRerun /\ [][Next]_vars

\* C10: validating a domain again against the same DNS answers gives the same
\* Result tree: domains, records, versions, mechanisms with their expanded
\* sub-results, lookupCount values and issues in the same order; only the
\* queryTime fields may differ.
C10_SameTreeAgain ==
  \A i, j \in DOMAIN finished :
    finished[i].domain = finished[j].domain
      => untimed(finished[i]) = untimed(finished[j])

\* a domain validated twice, its record expanded into sub-results both times,
\* the two answers differing in queryTime
C10_Witness ==
  /\ Len(finished) = 2
  /\ finished[1].domain = finished[2].domain
  /\ finished[1].queryTime # finished[2].queryTime
  /\ \E m \in Range(finished[2].mechanisms) :
       m.expanded # None /\ m.expanded[1].record # None
  /\ finished[2].lookupCount >= 2

\* ------------------------------------------ parseSpfRecord on its own
\* parseSpfRecord is called and returns
ParseSpfRecord ==
  /\ pr.pc = "call"
  /\ \E out \in {parseSpfRecord(pr.record)} :
       pr' = [pr EXCEPT !.pc = "returned", !.out = out]
  /\ UNCHANGED <<losers, rt, zone, queries, checked, runsLeft, phase, request, ctx,
                 stack, response, fetched, finished>>

NextParser == ParseSpfRecord

\* the records tried: a first token, then up to MaxTerms terms, separated by
\* one space, or by a tab and a space with a space before and a tab after
TermsTried ==
  {redirect(dA),                                    \* redirect=a
   redirect(dA) \o <<":", "b">>,                    \* redirect=a:b
   <<"+","R","e","d","i","r","e","c","t","=","c">>, \* +Redirect=c
   tREDIRECT \o <<":">> \o dB,                      \* redirect:b
   minusAll,                                        \* -all
   <<"?","P","T","R">>,                             \* ?PTR
   <<"a","/","2","4">>,                             \* a/24
   <<"a",":","b","/","8">>,                         \* a:b/8
   <<"=","x">>,                                     \* =x
   <<":","x","=","y">>,                             \* :x=y
   <<"/","x">>,                                     \* /x
   <<"+">>}                                         \* +
\* the lists of at most n of these terms
RECURSIVE TermListsUpTo(_)
TermListsUpTo(n) ==
  IF n = 0 THEN {<<>>}
  ELSE LET shorter == TermListsUpTo(n - 1)
       IN shorter \cup {Append(l, term) : l \in shorter, term \in TermsTried}
ValidVersionsTried == {vspf1, <<"V","=","S","p","f","1","x">>}
InvalidVersionsTried == {<<"s","p","f","1">>, <<"v","=","s","p","f">>, <<>>}

RECURSIVE joinTabSpace(_)
joinTabSpace(tokens) ==
  IF Len(tokens) = 1 THEN Head(tokens)
  ELSE Head(tokens) \o <<"\t", " ">> \o joinTabSpace(Tail(tokens))
RecordsTried(n) ==
  {joinSpace(<<v>> \o l) : v \in ValidVersionsTried, l \in TermListsUpTo(n)}
  \cup {<<" ">> \o joinTabSpace(<<vspf1>> \o l) \o <<"\t">> : l \in TermListsUpTo(n)}
  \cup {joinSpace(<<v>> \o l) : v \in InvalidVersionsTried, l \in TermListsUpTo(1)}

InitParser ==
  /\ zone \in {ChainZone}
  /\ queries = {}
  /\ checked = TRUE
  /\ runsLeft = NoRequest
  /\ phase = [r \in Slots |-> "idle"]
  /\ request = [r \in Slots |-> None]
  /\ ctx = [r \in Slots |-> noContext]
  /\ stack = [r \in Slots |-> <<>>]
  /\ response = [r \in Slots |-> noResponse]
  /\ fetched = [r \in Slots |-> <<>>]
  /\ finished = <<>>
  /\ rt = noResolveTxt
  /\ losers = {}
  /\ pr \in {ParseCall(record, "call", noParse) : record \in RecordsTried(MaxTerms)}
SpecParser == InitParser /\ [][NextParser]_vars

\* the whitespace-separated tokens of a record, in order: its maximal runs
\* of characters that are not whitespace
startsToken(s, i) == s[i] \notin Whitespace /\ (i = 1 \/ s[i - 1] \in Whitespace)
endOfToken(s, i) ==
  CHOOSE j \in i..Len(s) :
    /\ \A k \in i..j : s[k] \notin Whitespace
    /\ j = Len(s) \/ s[j + 1] \in Whitespace
nthStart(s, n) ==
  CHOOSE i \in DOMAIN s :
    startsToken(s, i) /\ Cardinality({k \in 1..i : startsToken(s, k)}) = n
tokensOf(s) ==
  [n \in 1..Cardinality({i \in DOMAIN s : startsToken(s, i)}) |->
     LET start == nthStart(s, n) IN SubSeq(s, start, endOfToken(s, start))] \o <<>>
\* the tokens after the first
termsOf(s) == Tail(tokensOf(s))

issueTexts(issues) == [i \in DOMAIN issues |-> issues[i].text] \o <<>>

MultipleRedirectText == "Multiple \"redirect\" modifiers found (only one allowed)"
\* a term that is a redirect= modifier: "redirect=", in any case, after an
\* optional qualifier
isRedirectModifier(term) ==
  LET name == IF term # <<>> /\ term[1] \in Qualifiers THEN Tail(term) ELSE term
  IN /\ Len(name) >= Len(tREDIRECT) + 1
     /\ toLowerCase(SubSeq(name, 1, Len(tREDIRECT))) = tREDIRECT
     /\ name[Len(tREDIRECT) + 1] = "="
redirectModifiers(record) ==
  LET terms == termsOf(record)
  IN Cardinality({n \in DOMAIN terms : isRedirectModifier(terms[n])})
parsedValid == pr.pc = "returned" /\ pr.out.version = "spf1"

\* C11 as stated: a record with two or more redirect= modifiers always gets
\* the error 'Multiple "redirect" modifiers found', whatever else it holds
\* and whatever follows the "=" of each; a record with at most one never
\* gets it.
C11_TwoRedirectsAreReported ==
  parsedValid
    => (Error(MultipleRedirectText, <<>>, 0) \in Range(pr.out.issues)
          <=> redirectModifiers(pr.record) >= 2)

\* the first whitespace-separated token of a record, "" when it has none
firstToken(record) ==
  LET tokens == tokensOf(record) IN IF tokens = <<>> THEN <<>> ELSE tokens[1]

\* C12: when the first token of the record does not start with "v=spf1", in
\* any case, parseSpfRecord returns version null, no mechanism and one issue,
\* the error naming that token, and no rule-set issue; when it does, the
\* version is "spf1".
C12_VersionToken ==
  pr.pc = "returned"
    => IF startsWith(toLowerCase(firstToken(pr.record)), vspf1)
       THEN pr.out.version = "spf1"
       ELSE pr.out = [version |-> "null", mechanisms |-> <<>>,
                      issues |-> <<Error("Invalid version: expected \"v=spf1\"",
                                         firstToken(pr.record), 0)>>]

\* "spf1 -all" parsed: no version, no mechanism, the one error naming "spf1"
C12_Witness ==
  /\ pr = ParseCall(<<"s","p","f","1"," ","-","a","l","l">>, "returned", pr.out)
  /\ pr.out.version = "null"
  /\ pr.out.mechanisms = <<>>
  /\ Len(pr.out.issues) = 1
  /\ pr.out.issues[1].type = "error"
  /\ pr.out.issues[1].dom = <<"s","p","f","1">>

\* where ch first occurs in s, counted from 1, and 0 if it does not
firstAt(s, ch) ==
  IF \E i \in DOMAIN s : s[i] = ch
  THEN CHOOSE i \in DOMAIN s : s[i] = ch /\ \A j \in 1..(i - 1) : s[j] # ch
  ELSE 0
qualifierOf(term) == IF term # <<>> /\ term[1] \in Qualifiers THEN term[1] ELSE "+"
remainderOf(term) == IF term # <<>> /\ term[1] \in Qualifiers THEN Tail(term) ELSE term

\* the mechanism of a term as C13 states it: split at the first ":" past the
\* start, else at the first "/" past the start, else at the first "=" past
\* the start, the value being the text after the separator
termAsStated(term) ==
  LET rest == remainderOf(term)
      at == IF firstAt(rest, ":") > 1 THEN firstAt(rest, ":")
            ELSE IF firstAt(rest, "/") > 1 THEN firstAt(rest, "/")
            ELSE IF firstAt(rest, "=") > 1 THEN firstAt(rest, "=")
            ELSE 0
  IN IF at = 0 THEN Mechanism(toLowerCase(rest), qualifierOf(term), <<>>)
     ELSE Mechanism(toLowerCase(SubSeq(rest, 1, at - 1)), qualifierOf(term),
                    SubSeq(rest, at + 1, Len(rest)))

\* C13 as stated: one mechanism per token after the version, in source
\* order: the optional leading +, -, ~ or ? is the qualifier (default +), the
\* remainder is split at the first ":" at a position above 0, else at the
\* first "/" at a position above 0, else at the first "=" at a position above
\* 0, the type lower-cased and the value the text after the separator; with
\* no such separator the type is the lower-cased remainder and the value empty.
C13_SplitAsStated ==
  parsedValid
    => LET terms == termsOf(pr.record)
       IN pr.out.mechanisms = [n \in DOMAIN terms |-> termAsStated(terms[n])] \o <<>>

\* the mechanism of a term as amended: "=" separates wherever it is, and the
\* value of a term split at "/" starts with that "/"
termAsAmended(term) ==
  LET rest == remainderOf(term)
  IN IF firstAt(rest, ":") > 1
     THEN Mechanism(toLowerCase(SubSeq(rest, 1, firstAt(rest, ":") - 1)), qualifierOf(term),
                    SubSeq(rest, firstAt(rest, ":") + 1, Len(rest)))
     ELSE IF firstAt(rest, "/") > 1
     THEN Mechanism(toLowerCase(SubSeq(rest, 1, firstAt(rest, "/") - 1)), qualifierOf(term),
                    SubSeq(rest, firstAt(rest, "/"), Len(rest)))
     ELSE IF firstAt(rest, "=") >= 1
     THEN Mechanism(toLowerCase(SubSeq(rest, 1, firstAt(rest, "=") - 1)), qualifierOf(term),
                    SubSeq(rest, firstAt(rest, "=") + 1, Len(rest)))
     ELSE Mechanism(toLowerCase(rest), qualifierOf(term), <<>>)

\* C13 amended: one mechanism per token after the version, in source order:
\* the optional leading +, -, ~ or ? is the qualifier (default +); the
\* remainder is split at its first ":" if that is at a position above 0, else
\* at its first "/" if that is at a position above 0, else at its first "="
\* at any position, 0 included; the type is the lower-cased text before the
\* separator; the value is the text after a ":" or "=", and for "/" the text
\* from the "/" on, the "/" included; with no separator the type is the
\* lower-cased remainder and the value empty. No term makes the parse fail.
C13_SplitAsParsed ==
  pr.pc = "returned"
    => IF startsWith(toLowerCase(firstToken(pr.record)), vspf1)
       THEN LET terms == termsOf(pr.record)
            IN pr.out.mechanisms = [n \in DOMAIN terms |-> termAsAmended(terms[n])] \o <<>>
       ELSE pr.out.mechanisms = <<>>

\* "v=spf1 +Redirect=c a/24 =x" parsed, tabs and spaces between its tokens
C13_Witness ==
  /\ pr.pc = "returned"
  /\ tokensOf(pr.record) = <<vspf1, <<"+","R","e","d","i","r","e","c","t","=","c">>,
                              <<"a","/","2","4">>, <<"=","x">>>>
  /\ pr.record[1] = " "
  /\ pr.out.mechanisms = <<Mechanism(tREDIRECT, "+", dC),
                           Mechanism(tA, "+", <<"/","2","4">>),
                           Mechanism(<<>>, "+", <<"x">>)>>

\* ------------------------------------------------------------ lookupCount
\* a sub-result expandMechanism built without a fetch
isStub(result) == texts(result) \cap StubTexts # {}
\* the sub-results attached to the mechanisms of a Result
subResults(result) ==
  {result.mechanisms[i].expanded[1] :
     i \in {j \in DOMAIN result.mechanisms : result.mechanisms[j].expanded # None}}
\* the counter as it was when the fetch for `result` was issued, and still
\* was when it completed: a request runs nothing else while it awaits
countAtFetch(r, result) ==
  {fetched[r][i].count : i \in {j \in DOMAIN fetched[r] : fetched[r][j].domain = result.domain}}

\* C14 as stated: the lookupCount of every Result of lookupSpf is the value
\* of the shared counter when that node's own fetch completed, before any of
\* its mechanisms were expanded, and from the root to every leaf of the tree
\* the lookupCount values never decrease, those of the sub-results attached
\* for missing-target, cycle and budget-exceeded cases included.
C14_CountAtFetch ==
  \A r \in Slots : \A result \in produced(r) :
    /\ ~isStub(result) => result.lookupCount \in countAtFetch(r, result)
    /\ \A sub \in subResults(result) : result.lookupCount <= sub.lookupCount

\* the Results a request has produced carry the counter of a later moment
\* than their sub-results do
C14_ParentAtLeastChild ==
  \A r \in Slots : \A result \in produced(r) :
    /\ isStub(result) => result.lookupCount = 0
    /\ ~isStub(result) /\ result.record = None
         => result.lookupCount \in countAtFetch(r, result)
    /\ \A sub \in subResults(result) : sub.lookupCount <= result.lookupCount
    /\ answered(r) => response[r].result[1].lookupCount = ctx[r].count
\* a Result of lookupSpf carries the counter as it is when lookupSpf returns
C14_ReadAtReturn ==
  \A r \in Slots : \A result \in produced(r)' \ produced(r) :
    ~isStub(result) => result.lookupCount = ctx[r].count

\* C14 amended: the lookupCount of every Result of lookupSpf is the value of
\* the shared counter when that lookupSpf call returns: after all the
\* mechanisms of the node have been expanded, or, for a node without a
\* record, when its fetch completed. The sub-results attached for
\* missing-target, cycle and budget-exceeded cases carry 0. From the root to
\* every leaf the lookupCount values never increase, and the top-level
\* Result carries the final value of the counter.
C14_CountAtReturn == []C14_ParentAtLeastChild /\ [][C14_ReadAtReturn]_vars

\* an answered request whose tree holds a fetched sub-result with a count of
\* its own, below the root's, and a sub-result built without a fetch
C14_Witness ==
  \E r \in Slots :
    /\ answered(r)
    /\ 0 \in countAtFetch(r, response[r].result[1])
    /\ \E sub \in subResults(response[r].result[1]) :
         /\ sub.record # None
         /\ 0 < sub.lookupCount
         /\ sub.lookupCount < response[r].result[1].lookupCount
         /\ sub.lookupCount \notin countAtFetch(r, sub)
    /\ \E result \in produced(r) : isStub(result)

\* ----------------------------------------------- the race and its loser
\* one request and one resolveTxt call with the native resolver first, the
\* losers of their races settling whenever they like
RaceCalls ==
  {ResolveTxtCall(ResolveOptions("native", l), "call", 0, None, <<>>, noOutcome) :
     l \in {<<>>, DEFAULT_FALLBACK_RESOLVERS}}
RaceQueryParams == {Some(dA)}
InitRace == InitWith(ConcurrentZones, RaceQueryParams, OneRequest, {TRUE}, RaceCalls)
NextRace ==
  \/ Next
  \/ ResolveTxt
  \/ RaceSettles
  \/ FallbackSettles
  \/ \E l \in losers : LoserSettles(l)
SpecRace == InitRace /\ [][NextRace]_vars

\* the first to settle decides: a native answer is the result, with no
\* fallback invoked; after a native failure or the timer, the fallbacks alone
\* decide. A request ends as it ends with no loser ever settling.
C15_RaceDecides ==
  /\ rt.invoked # <<>> /\ rt.invoked[1].settled = "ok"
       => rt = [rt EXCEPT !.pc = "returned", !.outcome = Outcome("ok", 1),
                          !.invoked = <<Invocation("native", "ok")>>]
  /\ rt.invoked # <<>> /\ rt.invoked[1].settled \in {"failed", "timeout"}
       => /\ rt.pc \in {"fallback", "returned", "threw"}
          /\ rt.pc = "returned"
               => /\ rt.outcome = Outcome("ok", Len(rt.invoked))
                  /\ Len(rt.invoked) >= 2
                  /\ rt.invoked[Len(rt.invoked)].settled = "ok"
          /\ rt.pc = "threw"
               => rt.outcome = IF Len(rt.invoked) >= 2
                               THEN Outcome("failed", Len(rt.invoked)) ELSE AllFailed
  /\ \A r \in Slots :
       answered(r)
            => LET ran == alone(zone, request[r])
               IN /\ untimed(response[r].result[1]) = ran.result
                  /\ ctx[r] = ran.ctx
\* a loser that settles changes nothing, and the DoH request is made when,
\* and only when, the race was not won by a native answer
C15_LoserIsIgnored ==
  /\ (losers' # losers /\ losers' \subseteq losers)
       => UNCHANGED <<rt, phase, request, ctx, stack, response, fetched, finished>>
  /\ \A r \in Slots :
       (phase[r] = "running" /\ top(r).pc = "native" /\ stack'[r] # stack[r])
         => (backendsFor(zone, top(r).domain).native.kind = "answer"
               <=> ~(Len(stack'[r]) = Len(stack[r]) /\ stack'[r][Len(stack[r])].pc = "doh"))

\* C15: in the race of the native lookup against the timer only the first to
\* settle counts. A native answer that comes first is returned and no
\* fallback is invoked, also when the timer fires afterwards; when the timer
\* or a native failure comes first, the fallbacks alone decide the outcome,
\* and a native answer arriving later changes neither the value returned nor
\* the counter nor the visited set.
C15_FirstToSettle == []C15_RaceDecides /\ [][C15_LoserIsIgnored]_vars

\* a native lookup that lost its race settles while its request awaits the
\* DoH answer, and the request is later answered from DoH
C15_LateNative ==
  \E r \in Slots :
    /\ phase[r] = "running"
    /\ top(r).pc = "doh"
    /\ backendsFor(zone, top(r).domain).native.kind = "slow"
    /\ Loser(r, top(r).domain, "native") \notin losers
C15_Witness ==
  /\ C15_LateNative
  /\ rt.pc = "returned"
  /\ rt.invoked = <<Invocation("native", "timeout"), Invocation("google", "ok")>>
  /\ Loser(0, <<>>, "native") \notin losers

\* ---------------------------------------------------------- the all rules
NoAllText == "No \"all\" mechanism found. Consider adding \"-all\" or \"~all\" at the end"
AllNotLastText == "\"all\" mechanism should be the last term in the record"
PtrText == "\"ptr\" mechanism is deprecated (RFC 7208 Section 5.5)"
\* where an issue with this text stands in the list
placesOf(issues, text) == {i \in DOMAIN issues : issues[i].text = text}

C17_ExpandFrame ==
  \A r \in Slots :
    (expanding(r) /\ stepped(r) /\ ~(isReference(cur(r)) /\ cur(r).value # <<>>))
      => /\ madeNoCall(r)
         /\ ctx'[r].visited = ctx[r].visited
         /\ ctx'[r].count =
              IF cur(r).type \in {tA, tMX, tPTR, tEXISTS} THEN ctx[r].count + 1
              ELSE ctx[r].count
         /\ pushed(r) =
              IF isReference(cur(r))
              THEN [cur(r) EXCEPT !.expanded =
                      Some(SpfResult(<<>>, None, "null", <<>>, 0,
                                     <<Error(MissingDomainText, <<>>, 0)>>, 0))]
              ELSE cur(r)
         /\ ~isReference(cur(r)) => pushed(r).expanded = None
\* in every Result produced, the mechanisms are those parsed from its
\* record, one for one, and the includes and redirects among them, and no
\* others, carry a sub-result
C17_MechanismsKept ==
  \A r \in Slots : \A result \in produced(r) :
    /\ \A i \in DOMAIN result.mechanisms :
         result.mechanisms[i].expanded # None <=> isReference(result.mechanisms[i])
    /\ result.record # None
         => LET parsed == parseSpfRecord(result.record[1]).mechanisms
            IN /\ Len(result.mechanisms) = Len(parsed)
               /\ \A i \in DOMAIN parsed :
                    /\ result.mechanisms[i].type = parsed[i].type
                    /\ result.mechanisms[i].qualifier = parsed[i].qualifier
                    /\ result.mechanisms[i].value = parsed[i].value

\* C17: expansion changes only what the type of the mechanism dictates. An
\* a, mx, ptr or exists adds 1 to ctx.count, fetches nothing and gets no
\* expanded field; a mechanism outside the lookup set leaves ctx.count and
\* ctx.visited alone; an include or redirect without a target gets the
\* single-error sub-result and no increment; a mechanism of a returned Result
\* carries a sub-result exactly when it is an include or a redirect; and the
\* returned list has the length, order, types, qualifiers and values of the
\* parsed one.
C17_OnlyWhatTheTypeDictates == []C17_MechanismsKept /\ [][C17_ExpandFrame]_vars

\* an answered request whose tree holds an include without a target with its
\* sub-result, a counted ptr, and an all that counted nothing
C17_Witness ==
  \E r \in Slots :
    /\ answered(r)
    /\ \E result \in produced(r) :
         /\ \E i \in DOMAIN result.mechanisms :
              /\ result.mechanisms[i].type = tINCLUDE
              /\ result.mechanisms[i].value = <<>>
              /\ MissingDomainText \in texts(result.mechanisms[i].expanded[1])
         /\ \E i \in DOMAIN result.mechanisms : result.mechanisms[i].type = tPTR
         /\ \E i \in DOMAIN result.mechanisms : result.mechanisms[i].type = tALL
         /\ result.lookupCount > 0

\* ------------------------------------------------- visited is tree-wide
\* during a request the visited set only grows and the counter never falls
C18_OnlyGrows ==
  \A r \in Slots :
    phase[r] = "running"
      => /\ ctx[r].visited \subseteq ctx'[r].visited
         /\ ctx[r].count <= ctx'[r].count
\* a reference to a domain the request has fetched before, wherever in the
\* tree, is not fetched and not counted, and gets the cycle sub-result
C18_LaterReference ==
  \A r \in Slots :
    (/\ expanding(r) /\ stepped(r)
     /\ isReference(cur(r))
     /\ toLowerCase(cur(r).value) \in Range(fetchedNames(fetched[r])))
      => /\ madeNoCall(r)
         /\ ctx'[r] = ctx[r]
         /\ pushed(r) =
              [cur(r) EXCEPT !.expanded =
                 Some(SpfResult(cur(r).value, None, "null", <<>>, 0,
                                <<Error(CircularText, cur(r).value, 0)>>, 0))]
\* the visited set holds every domain the request has fetched, on the
\* current path or not
C18_VisitedIsEveryFetch ==
  \A r \in Slots : ctx[r].visited = Range(fetchedNames(fetched[r]))

====
